---- MODULE Spec2Model ----
(***************************************************************************)
(* Transfer orchestration engine of the multi-cloud file transfer server:  *)
(* TransferEngine (services/transfer-engine/transfer-engine.js), the       *)
(* TransferJob record (transfer-job.js) and the transfers table of         *)
(* services/database.js.                                                   *)
(*                                                                         *)
(* The runtime is single threaded: the code between two awaits runs        *)
(* atomically, so every action below is one such run-to-completion         *)
(* segment.  processQueue contains no await, so a whole drain sweep        *)
(* (including the synchronous prefix of every processTransfer it starts:   *)
(* job.start() and the snapshot taken by updateJobInDatabase) is part of   *)
(* the segment that called it.                                             *)
(*                                                                         *)
(* A database write that the code awaits is applied (or fails) in the same *)
(* step as the continuation that waits for it; the snapshot it carries is  *)
(* the one taken when updateJobInDatabase was called.  Writes nobody       *)
(* awaits in the pipeline (progress writes) and the direct write of        *)
(* cancelTransfer stay in flight in dbWrites until the database runs them. *)
(*                                                                         *)
(* The engine registers no progress callback on its jobs (nothing calls    *)
(* TransferJob.onProgress), so the callbacks are modelled on a TransferJob *)
(* that is used directly: testJob.                                         *)
(*                                                                         *)
(* Not modelled: timestamps, transferSpeed, file contents.                 *)
(***************************************************************************)
EXTENDS Integers, Sequences, FiniteSets, TLC

VARIABLES
    transfers,        \* database.js: rows of table transfers, id = index
    jobs,             \* TransferJob objects by id (transfer-job.js fields)
    transferQueue,    \* TransferEngine.transferQueue (ids, head first)
    activeTransfers,  \* TransferEngine.activeTransfers (key set of the Map)
    isProcessing,     \* TransferEngine.isProcessing
    creating,         \* createTransfer calls awaiting db.createTransferJob
    pc,               \* position of processTransfer(job) per job id
    pipeWrite,        \* snapshot of the write processTransfer is awaiting
    cancelling,       \* cancelTransfer calls awaiting updateJobInDatabase
    dbWrites,         \* progress UPDATEs issued by onProgress, not yet run
    cancelWrites,     \* direct UPDATEs of cancelTransfer, not yet run
    reported,         \* provider side: last percentage given to onProgress
    cancelCalls,      \* history: number of cancelTransfer calls made
    startOrder,       \* history: ids in the order job.start() was called
    appendOrder,      \* history: ids in the order transferQueue.push ran
    queueCancelled,   \* history: ids cancelled while waiting in the queue
    uploadCalled,     \* history: ids for which uploadFile was invoked
    probeFailed,      \* history: ids whose size probe failed
    lastCall,         \* the API call that returned in the last step
    testJob,          \* a TransferJob used directly, unknown to the engine
    progressCallbacks,\* TransferJob.progressCallbacks of testJob
    notified,         \* history: the calls made to the callbacks of testJob
    jobLog            \* history: the methods called on testJob

\* The engine and its database; the TransferJob used directly.
engineVars == <<transfers, jobs, transferQueue, activeTransfers, isProcessing,
                creating, pc, pipeWrite, cancelling, dbWrites, cancelWrites,
                reported, cancelCalls, startOrder, appendOrder,
                queueCancelled, uploadCalled, probeFailed, lastCall>>
jobVars == <<testJob, progressCallbacks, notified, jobLog>>

vars == <<engineVars, jobVars>>

-----------------------------------------------------------------------------
(* Program constants and bounds *)

maxConcurrentTransfers == 3

\* Bounds of Spec (every operation with every outcome): createTransfer calls
\* that get to the INSERT, of them at once between INSERT and push,
\* cancelTransfer calls, UPDATEs in flight per kind.
MaxJobs == 1
MaxCreating == 1
MaxCancels == 1
MaxInFlight == 1

\* Bounds of SpecQueue (more jobs than slots, no cancelTransfer).
MaxQueueJobs == 5
MaxQueueCreating == 2

\* Bounds of SpecCancel (more jobs than slots, with cancelTransfer).
MaxCancelJobs == 4
MaxCancelCreating == 1
MaxCancelCalls == 1

\* Bounds of SpecProgress (progress reports of both phases, late writes).
MaxProgressJobs == 1
MaxProgressCreating == 1
MaxProgressInFlight == 2

\* Bounds of SpecWrites (more jobs than slots, failing writes).
MaxWriteJobs == 4
MaxWriteCreating == 1

\* Bounds of SpecLive (fair pipelines, cancelTransfer at any time).
MaxLiveJobs == 4
MaxLiveCreating == 1
MaxLiveCancels == 1
MaxLiveFailJobs == 1

\* Bounds of SpecStatus (more jobs than slots, getQueueStatus at any time).
MaxStatusJobs == 4
MaxStatusCreating == 1

\* Bounds of SpecJob: callbacks registered on testJob, methods called on it.
MaxObservers == 2
MaxJobCalls == 3

Users == {1, 2}

\* cloud_accounts rows: accounts 1 and 2 belong to user 1, account 3 to user 2
CloudAccounts == {[id |-> 1, user_id |-> 1], [id |-> 2, user_id |-> 1],
                  [id |-> 3, user_id |-> 2]}

\* createTransfer requests <<userId, sourceAccountId, destinationAccountId>>:
\* two accounts of the user; the same account twice; an account of somebody
\* else twice; a destination, a source, both accounts of somebody else.
CreateRequests == {<<1, 1, 2>>, <<1, 1, 1>>, <<1, 3, 3>>, <<1, 1, 3>>,
                   <<1, 3, 2>>, <<2, 1, 2>>}

\* Results of the size probe: it throws (getFileInfo, decryptCredentials or
\* createProvider) or it returns the size reported by the provider.
ProbedSizes == {1000}
ProbeFailure == [ok |-> FALSE, size |-> 0]
ProbeSuccess(size) == [ok |-> TRUE, size |-> size]
ProbeResults == {ProbeFailure} \cup {ProbeSuccess(n) : n \in ProbedSizes}

\* Percentages a provider reports to onProgress.
Percentages == {50, 100}

\* Percentages reported in SpecProgress: both ends, a value whose half is
\* rounded up (Math.round(12.5) = 13), and one whose half is a whole number.
ProgressPercentages == {0, 25, 50, 100}

ErrorMessages == {"NetworkError"}

Null == "null"
NoStats == [id |-> 0, status |-> "none", progress |-> 0, fileSize |-> 0,
            transferredBytes |-> 0, error |-> Null]
NoCall == [op |-> "none", by |-> "none", userId |-> 0, id |-> 0, src |-> 0,
           dst |-> 0, result |-> "none", stats |-> NoStats]

-----------------------------------------------------------------------------
(* database.js *)

\* getCloudAccountById:
\* SELECT * FROM cloud_accounts WHERE id = ? AND user_id = ?
getCloudAccountById(accountId, userId) ==
    {a \in CloudAccounts : a.id = accountId /\ a.user_id = userId}

\* createTransferJob: INSERT with the column defaults of the schema
NewRow(userId, src, dst, fileSize) ==
    [user_id |-> userId, source_account_id |-> src,
     destination_account_id |-> dst, file_size |-> fileSize,
     status |-> "queued", progress |-> 0, transferred_bytes |-> 0,
     error_message |-> Null]

\* getTransferById: SELECT * FROM transfers WHERE id = ? AND user_id = ?
getTransferById(transferId, userId) ==
    {i \in 1..Len(transfers) : i = transferId /\ transfers[i].user_id = userId}

\* updateTransferJob: UPDATE transfers SET <fields of upd> WHERE id = ?
\* (upd is a record holding a subset of the allowed columns)
updateTransferJob(rows, transferId, upd) ==
    IF transferId \in 1..Len(rows)
    THEN [rows EXCEPT ![transferId] =
            [f \in DOMAIN @ |-> IF f \in DOMAIN upd THEN upd[f] ELSE @[f]]]
    ELSE rows

-----------------------------------------------------------------------------
(* transfer-job.js *)

\* Math.floor in the place of Math.round.
RoundDown(n, d) == n \div d

\* Math.round for a non-negative quotient n/d
Round(n, d) == (2 * n + d) \div (2 * d)

NewJob(userId, src, dst, fileSize) ==
    [userId |-> userId, sourceAccountId |-> src, destinationAccountId |-> dst,
     status |-> "queued", progress |-> 0, fileSize |-> fileSize,
     transferredBytes |-> 0, error |-> Null]

updateProgress(job, transferred, total) ==
    [job EXCEPT !.transferredBytes = transferred,
                !.fileSize = total,
                !.progress = IF total > 0 THEN Round(transferred * 100, total)
                             ELSE 0]

start(job) ==
    updateProgress([job EXCEPT !.status = "running"],
                   job.transferredBytes, job.fileSize)

complete(job) ==
    updateProgress([job EXCEPT !.status = "completed", !.progress = 100],
                   job.fileSize, job.fileSize)

\* fail() that does not record the message of the error.
failNoMessage(job, message) ==
    updateProgress([job EXCEPT !.status = "failed"],
                   job.transferredBytes, job.fileSize)

fail(job, message) ==
    updateProgress([job EXCEPT !.status = "failed", !.error = message],
                   job.transferredBytes, job.fileSize)

cancel(job) ==
    updateProgress([job EXCEPT !.status = "cancelled"],
                   job.transferredBytes, job.fileSize)

getStats(id, job) ==
    [id |-> id, status |-> job.status, progress |-> job.progress,
     fileSize |-> job.fileSize, transferredBytes |-> job.transferredBytes,
     error |-> job.error]

-----------------------------------------------------------------------------
(* transfer-engine.js *)

\* the updates object built by updateJobInDatabase
Snapshot(job) ==
    [status |-> job.status, progress |-> job.progress,
     transferred_bytes |-> job.transferredBytes, error_message |-> job.error]

NoWrite == [status |-> "none", progress |-> 0, transferred_bytes |-> 0,
            error_message |-> Null]

\* the updates object of the direct write in cancelTransfer
CancelUpdate == [status |-> "cancelled"]

\* updateJobInDatabase: the write is applied, or its error is swallowed
updateJobInDatabase(rows, id, snap, ok) ==
    IF ok THEN updateTransferJob(rows, id, snap) ELSE rows

\* processQueue returning at its guard although no sweep is running: nothing
\* is shifted.
DrainedEarlyReturn(queue, activeSize) == <<>>

\* The loop of processQueue without the test of activeTransfers.size.
DrainedNoLimit(queue, activeSize) == queue

\* The loop of processQueue taking jobs with pop() instead of shift().
DrainedLifo(queue, activeSize) ==
    LET free == maxConcurrentTransfers - activeSize
        k == IF free < 0 THEN 0
             ELSE IF free < Len(queue) THEN free ELSE Len(queue)
    IN [i \in 1..k |-> queue[Len(queue) + 1 - i]]

\* The while loop of processQueue: the ids shifted from the queue, in order
RECURSIVE Drained(_, _)
Drained(queue, activeSize) ==
    IF Len(queue) > 0 /\ activeSize < maxConcurrentTransfers
    THEN <<Head(queue)>> \o Drained(Tail(queue), activeSize + 1)
    ELSE <<>>

Range(s) == {s[i] : i \in 1..Len(s)}

\* processQueue reading the head of the queue without removing it.
processQueueNoShift(queue, active, js, pos, pw, busy) ==
    IF busy
    THEN [queue |-> queue, active |-> active, jobs |-> js, pc |-> pos,
          pipeWrite |-> pw, started |-> <<>>, isProcessing |-> TRUE]
    ELSE LET d == Drained(queue, Cardinality(active))
             s == {d[i] : i \in 1..Len(d)}
         IN [queue |-> queue,
             active |-> active \cup s,
             jobs |-> [j \in DOMAIN js |-> IF j \in s THEN start(js[j])
                                           ELSE js[j]],
             pc |-> [j \in DOMAIN pos |-> IF j \in s THEN "starting"
                                          ELSE pos[j]],
             pipeWrite |-> [j \in DOMAIN pw |->
                              IF j \in s THEN Snapshot(start(js[j]))
                              ELSE pw[j]],
             started |-> d, isProcessing |-> FALSE]

\* processQueue without the finally block: the flag stays set after the sweep.
processQueueFlagLeftSet(queue, active, js, pos, pw, busy) ==
    IF busy
    THEN [queue |-> queue, active |-> active, jobs |-> js, pc |-> pos,
          pipeWrite |-> pw, started |-> <<>>, isProcessing |-> TRUE]
    ELSE LET d == Drained(queue, Cardinality(active))
             s == {d[i] : i \in 1..Len(d)}
         IN [queue |-> SelectSeq(queue, LAMBDA x : x \notin s),
             active |-> active \cup s,
             jobs |-> [j \in DOMAIN js |-> IF j \in s THEN start(js[j])
                                           ELSE js[j]],
             pc |-> [j \in DOMAIN pos |-> IF j \in s THEN "starting"
                                          ELSE pos[j]],
             pipeWrite |-> [j \in DOMAIN pw |->
                              IF j \in s THEN Snapshot(start(js[j]))
                              ELSE pw[j]],
             started |-> d, isProcessing |-> TRUE]

\* processQueue: returns the engine state after the sweep.  Every shifted job
\* is put into activeTransfers and processTransfer(job) runs up to its first
\* await: job.start() and the snapshot of updateJobInDatabase.
processQueue(queue, active, js, pos, pw, busy) ==
    IF busy
    THEN [queue |-> queue, active |-> active, jobs |-> js, pc |-> pos,
          pipeWrite |-> pw, started |-> <<>>, isProcessing |-> TRUE]
    ELSE LET d == Drained(queue, Cardinality(active))
             s == Range(d)
         IN [queue |-> SelectSeq(queue, LAMBDA x : x \notin s),
             active |-> active \cup s,
             jobs |-> [j \in DOMAIN js |-> IF j \in s THEN start(js[j])
                                           ELSE js[j]],
             pc |-> [j \in DOMAIN pos |-> IF j \in s THEN "starting"
                                          ELSE pos[j]],
             pipeWrite |-> [j \in DOMAIN pw |->
                              IF j \in s THEN Snapshot(start(js[j]))
                              ELSE pw[j]],
             started |-> d, isProcessing |-> FALSE]

-----------------------------------------------------------------------------
Init ==
    /\ transfers = <<>>
    /\ jobs = <<>>
    /\ transferQueue = <<>>
    /\ activeTransfers = {}
    /\ isProcessing = FALSE
    /\ creating = {}
    /\ pc = <<>>
    /\ pipeWrite = <<>>
    /\ cancelling = {}
    /\ dbWrites = {}
    /\ cancelWrites = {}
    /\ reported = <<>>
    /\ cancelCalls = 0
    /\ startOrder = <<>>
    /\ appendOrder = <<>>
    /\ queueCancelled = {}
    /\ uploadCalled = {}
    /\ probeFailed = {}
    /\ lastCall = NoCall
    /\ testJob = NewJob(1, 1, 2, 0)
    /\ progressCallbacks = <<>>
    /\ notified = <<>>
    /\ jobLog = <<>>

\* by: "route" when the HTTP handler answered without calling the engine,
\* "engine" when the answer is what the TransferEngine method returned or threw
Call(op, by, userId, id, src, dst, result, stats) ==
    [op |-> op, by |-> by, userId |-> userId, id |-> id, src |-> src,
     dst |-> dst, result |-> result, stats |-> stats]

-----------------------------------------------------------------------------
(* POST /transfers and createTransfer *)

\* The check the POST handler makes on the request body before it calls
\* transferEngine.createTransfer: 400 "Invalid transfer" for equal ids.
RouteError(src, dst) == IF src = dst THEN "validation" ELSE "none"

\* createTransfer comparing the requested ids without looking the accounts up.
CreateErrorNoLookup(userId, src, dst) ==
    IF src = dst THEN "validation" ELSE "none"

\* The error createTransfer throws before it touches any state, "none" if it
\* gets past the checks.  Both accounts are looked up first; the ids of the
\* rows found are compared afterwards.
CreateError(userId, src, dst) ==
    LET sourceAccount == getCloudAccountById(src, userId)
        destAccount == getCloudAccountById(dst, userId)
    IN IF sourceAccount = {} \/ destAccount = {} THEN "not_found"
       ELSE IF \E a \in sourceAccount, b \in destAccount : a.id = b.id
            THEN "validation"
            ELSE "none"

\* The POST handler answers 400 itself; the engine is not called.
PostTransferInvalid(userId, src, dst) ==
    /\ RouteError(src, dst) # "none"
    /\ lastCall' = Call("createTransfer", "route", userId, 0, src, dst,
                        RouteError(src, dst), NoStats)
    /\ UNCHANGED <<transfers, jobs, transferQueue, activeTransfers,
                   isProcessing, creating, pc, pipeWrite, cancelling,
                   dbWrites, cancelWrites, reported, cancelCalls, startOrder,
                   appendOrder, queueCancelled, uploadCalled, probeFailed>>
    /\ UNCHANGED jobVars

\* createTransfer rejects the request: the error is rethrown to the caller.
CreateTransferReject(userId, src, dst) ==
    /\ CreateError(userId, src, dst) # "none"
    /\ lastCall' = Call("createTransfer", "engine", userId, 0, src, dst,
                        CreateError(userId, src, dst), NoStats)
    /\ UNCHANGED <<transfers, jobs, transferQueue, activeTransfers,
                   isProcessing, creating, pc, pipeWrite, cancelling,
                   dbWrites, cancelWrites, reported, cancelCalls, startOrder,
                   appendOrder, queueCancelled, uploadCalled, probeFailed>>
    /\ UNCHANGED jobVars

\* createTransfer passes the checks but db.createTransferJob rejects: the
\* error is rethrown, nothing was inserted, nothing is queued.
CreateTransferDbError(userId, src, dst) ==
    /\ CreateError(userId, src, dst) = "none"
    /\ lastCall' = Call("createTransfer", "engine", userId, 0, src, dst,
                        "db_error", NoStats)
    /\ UNCHANGED <<transfers, jobs, transferQueue, activeTransfers,
                   isProcessing, creating, pc, pipeWrite, cancelling,
                   dbWrites, cancelWrites, reported, cancelCalls, startOrder,
                   appendOrder, queueCancelled, uploadCalled, probeFailed>>
    /\ UNCHANGED jobVars

\* The size probe of createTransfer: fileSize stays 0 when it throws.
ProbeFileSize(probe) == IF probe.ok THEN probe.size ELSE 0

\* createTransfer without the try/catch around the probe: its failure is
\* rethrown and nothing is inserted.
CreateTransferProbeFatal(maxJobs, maxCreating, userId, src, dst, probe) ==
    /\ CreateError(userId, src, dst) = "none"
    /\ Len(transfers) < maxJobs
    /\ Cardinality(creating) < maxCreating
    /\ transfers' = IF probe.ok
                    THEN Append(transfers, NewRow(userId, src, dst, probe.size))
                    ELSE transfers
    /\ creating' = IF probe.ok THEN creating \cup {Len(transfers) + 1}
                   ELSE creating
    /\ probeFailed' = IF probe.ok THEN probeFailed
                      ELSE probeFailed \cup {Len(transfers) + 1}
    /\ lastCall' = IF probe.ok THEN NoCall
                   ELSE Call("createTransfer", "engine", userId, 0, src, dst,
                             "provider_error", NoStats)
    /\ UNCHANGED <<jobs, transferQueue, activeTransfers, isProcessing, pc,
                   pipeWrite, cancelling, dbWrites, cancelWrites, reported,
                   cancelCalls, startOrder, appendOrder, queueCancelled,
                   uploadCalled>>
    /\ UNCHANGED jobVars

\* createTransfer up to the INSERT: checks, size probe, db.createTransferJob.
\* The new row gets the next id.
CreateTransferInsert(maxJobs, maxCreating, userId, src, dst, probe) ==
    /\ CreateError(userId, src, dst) = "none"
    /\ Len(transfers) < maxJobs
    /\ Cardinality(creating) < maxCreating
    /\ transfers' = Append(transfers,
                           NewRow(userId, src, dst, ProbeFileSize(probe)))
    /\ creating' = creating \cup {Len(transfers) + 1}
    /\ probeFailed' = IF probe.ok THEN probeFailed
                      ELSE probeFailed \cup {Len(transfers) + 1}
    /\ lastCall' = NoCall
    /\ UNCHANGED <<jobs, transferQueue, activeTransfers, isProcessing, pc,
                   pipeWrite, cancelling, dbWrites, cancelWrites, reported,
                   cancelCalls, startOrder, appendOrder, queueCancelled,
                   uploadCalled>>
    /\ UNCHANGED jobVars

\* createTransfer after the INSERT returned: new TransferJob, push,
\* processQueue(), return {transferId, status: "queued"}.
CreateTransferEnqueue(id) ==
    /\ id \in creating
    /\ LET row == transfers[id]
           job == NewJob(row.user_id, row.source_account_id,
                         row.destination_account_id, row.file_size)
           r == processQueue(Append(transferQueue, id), activeTransfers,
                             (id :> job) @@ jobs, (id :> "none") @@ pc,
                             (id :> NoWrite) @@ pipeWrite, isProcessing)
       IN /\ transferQueue' = r.queue
          /\ activeTransfers' = r.active
          /\ jobs' = r.jobs
          /\ pc' = r.pc
          /\ pipeWrite' = r.pipeWrite
          /\ isProcessing' = r.isProcessing
          /\ startOrder' = startOrder \o r.started
          /\ lastCall' = Call("createTransfer", "engine", row.user_id, id,
                              row.source_account_id,
                              row.destination_account_id, "queued", NoStats)
    /\ creating' = creating \ {id}
    /\ reported' = (id :> 0) @@ reported
    /\ appendOrder' = Append(appendOrder, id)
    /\ UNCHANGED <<transfers, cancelling, dbWrites, cancelWrites, cancelCalls,
                   queueCancelled, uploadCalled, probeFailed>>
    /\ UNCHANGED jobVars

-----------------------------------------------------------------------------
(* processTransfer: pc[j] is the await the pipeline of job j is suspended at *)
(*   "none"        processTransfer(j) has not been called                   *)
(*   "starting"    await updateJobInDatabase after job.start()              *)
(*   "downloading" await downloadFile / await the end of its stream         *)
(*   "uploading"   await uploadFile                                         *)
(*   "completing"  await updateJobInDatabase after job.complete()           *)
(*   "failing"     await updateJobInDatabase after job.fail() (catch block) *)
(*   "done"        processTransfer has returned or thrown                   *)

\* catch block of processTransfer up to its await: job.fail(error) and the
\* snapshot taken by updateJobInDatabase
EnterCatch(j, message) ==
    /\ jobs' = [jobs EXCEPT ![j] = fail(@, message)]
    /\ pipeWrite' = [pipeWrite EXCEPT ![j] = Snapshot(fail(jobs[j], message))]
    /\ pc' = [pc EXCEPT ![j] = "failing"]

\* updateJobInDatabase without its try/catch: a failed start write is thrown
\* into the catch block of processTransfer and fails the job.
PipelineBeginWriteThrows(j, ok) ==
    /\ j \in DOMAIN pc /\ pc[j] = "starting"
    /\ transfers' = updateJobInDatabase(transfers, j, pipeWrite[j], ok)
    /\ IF ok
       THEN /\ pc' = [pc EXCEPT ![j] = "downloading"]
            /\ pipeWrite' = [pipeWrite EXCEPT ![j] = NoWrite]
            /\ jobs' = jobs
       ELSE EnterCatch(j, "SQLITE_ERROR")
    /\ reported' = [reported EXCEPT ![j] = 0]
    /\ lastCall' = NoCall
    /\ UNCHANGED <<transferQueue, activeTransfers, isProcessing, creating,
                   cancelling, dbWrites, cancelWrites, cancelCalls,
                   startOrder, appendOrder, queueCancelled, uploadCalled,
                   probeFailed>>
    /\ UNCHANGED jobVars

\* The start write returned; accounts resolved, providers created,
\* downloadFile called.
PipelineBegin(j, ok) ==
    /\ j \in DOMAIN pc /\ pc[j] = "starting"
    /\ transfers' = updateJobInDatabase(transfers, j, pipeWrite[j], ok)
    /\ pc' = [pc EXCEPT ![j] = "downloading"]
    /\ pipeWrite' = [pipeWrite EXCEPT ![j] = NoWrite]
    /\ reported' = [reported EXCEPT ![j] = 0]
    /\ lastCall' = NoCall
    /\ UNCHANGED <<jobs, transferQueue, activeTransfers, isProcessing,
                   creating, cancelling, dbWrites, cancelWrites, cancelCalls,
                   startOrder, appendOrder, queueCancelled, uploadCalled,
                   probeFailed>>
    /\ UNCHANGED jobVars

\* The start write returned; resolving an account, decrypting credentials or
\* createProvider throws before downloadFile is called.
PipelineBeginFail(j, ok, message) ==
    /\ j \in DOMAIN pc /\ pc[j] = "starting"
    /\ transfers' = updateJobInDatabase(transfers, j, pipeWrite[j], ok)
    /\ EnterCatch(j, message)
    /\ lastCall' = NoCall
    /\ UNCHANGED <<transferQueue, activeTransfers, isProcessing, creating,
                   cancelling, dbWrites, cancelWrites, reported, cancelCalls,
                   startOrder, appendOrder, queueCancelled, uploadCalled,
                   probeFailed>>
    /\ UNCHANGED jobVars

\* onProgress of the download (base 0) or of the upload (base 50):
\* job.updateProgress and a write nobody awaits.  The transferred byte count
\* overallProgress * fileSize / 100 is exact for the file sizes of the model.
OnProgress(maxInFlight, j, phase, base, percentage) ==
    /\ j \in DOMAIN pc /\ pc[j] = phase
    /\ percentage >= reported[j]
    /\ LET overallProgress == base + Round(percentage, 2)
           job == updateProgress(jobs[j],
                                 (overallProgress * jobs[j].fileSize) \div 100,
                                 jobs[j].fileSize)
           w == [id |-> j, upd |-> Snapshot(job)]
       IN /\ w \in dbWrites \/ Cardinality(dbWrites) < maxInFlight
          /\ jobs' = [jobs EXCEPT ![j] = job]
          /\ dbWrites' = dbWrites \cup {w}
    /\ reported' = [reported EXCEPT ![j] = percentage]
    /\ lastCall' = NoCall
    /\ UNCHANGED <<transfers, transferQueue, activeTransfers, isProcessing,
                   creating, pc, pipeWrite, cancelling, cancelWrites,
                   cancelCalls, startOrder, appendOrder, queueCancelled,
                   uploadCalled, probeFailed>>
    /\ UNCHANGED jobVars

DownloadProgress(maxInFlight, j, percentage) ==
    OnProgress(maxInFlight, j, "downloading", 0, percentage)

\* The upload callback adding the whole percentage to 50 instead of its half.
UploadProgressUnscaled(maxInFlight, j, percentage) ==
    OnProgress(maxInFlight, j, "uploading",
               50 + percentage - Round(percentage, 2), percentage)

\* onProgress of the upload without the offset of the second half.
UploadProgressNoBase(maxInFlight, j, percentage) ==
    OnProgress(maxInFlight, j, "uploading", 0, percentage)

UploadProgress(maxInFlight, j, percentage) ==
    OnProgress(maxInFlight, j, "uploading", 50, percentage)

\* The download stream ended: the buffer is handed to uploadFile.
DownloadEnd(j) ==
    /\ j \in DOMAIN pc /\ pc[j] = "downloading"
    /\ pc' = [pc EXCEPT ![j] = "uploading"]
    /\ reported' = [reported EXCEPT ![j] = 0]
    /\ uploadCalled' = uploadCalled \cup {j}
    /\ lastCall' = NoCall
    /\ UNCHANGED <<transfers, jobs, transferQueue, activeTransfers,
                   isProcessing, creating, pipeWrite, cancelling, dbWrites,
                   cancelWrites, cancelCalls, startOrder, appendOrder,
                   queueCancelled, probeFailed>>
    /\ UNCHANGED jobVars

\* A download stream whose error is recorded on the job but does not reject:
\* the pipeline goes on to uploadFile.
ProviderFailUploadsAnyway(j, message) ==
    /\ j \in DOMAIN pc /\ pc[j] \in {"downloading", "uploading"}
    /\ IF pc[j] = "downloading"
       THEN /\ jobs' = [jobs EXCEPT ![j].error = message]
            /\ pc' = [pc EXCEPT ![j] = "uploading"]
            /\ uploadCalled' = uploadCalled \cup {j}
            /\ UNCHANGED pipeWrite
       ELSE /\ EnterCatch(j, message)
            /\ UNCHANGED uploadCalled
    /\ lastCall' = NoCall
    /\ UNCHANGED <<transfers, transferQueue, activeTransfers, isProcessing,
                   creating, cancelling, dbWrites, cancelWrites, reported,
                   cancelCalls, startOrder, appendOrder, queueCancelled,
                   probeFailed>>
    /\ UNCHANGED jobVars

\* downloadFile, the download stream or uploadFile throws.
ProviderFail(j, message) ==
    /\ j \in DOMAIN pc /\ pc[j] \in {"downloading", "uploading"}
    /\ EnterCatch(j, message)
    /\ lastCall' = NoCall
    /\ UNCHANGED <<transfers, transferQueue, activeTransfers, isProcessing,
                   creating, cancelling, dbWrites, cancelWrites, reported,
                   cancelCalls, startOrder, appendOrder, queueCancelled,
                   uploadCalled, probeFailed>>
    /\ UNCHANGED jobVars

\* uploadFile returned: job.complete() and the snapshot of its write.
UploadReturn(j) ==
    /\ j \in DOMAIN pc /\ pc[j] = "uploading"
    /\ jobs' = [jobs EXCEPT ![j] = complete(@)]
    /\ pipeWrite' = [pipeWrite EXCEPT ![j] = Snapshot(complete(jobs[j]))]
    /\ pc' = [pc EXCEPT ![j] = "completing"]
    /\ lastCall' = NoCall
    /\ UNCHANGED <<transfers, transferQueue, activeTransfers, isProcessing,
                   creating, cancelling, dbWrites, cancelWrites, reported,
                   cancelCalls, startOrder, appendOrder, queueCancelled,
                   uploadCalled, probeFailed>>
    /\ UNCHANGED jobVars

\* The completion path freeing the slot without calling processQueue.
CompleteFinishNoDrain(j, ok) ==
    /\ j \in DOMAIN pc /\ pc[j] = "completing"
    /\ transfers' = updateJobInDatabase(transfers, j, pipeWrite[j], ok)
    /\ activeTransfers' = activeTransfers \ {j}
    /\ pc' = [pc EXCEPT ![j] = "done"]
    /\ pipeWrite' = [pipeWrite EXCEPT ![j] = NoWrite]
    /\ lastCall' = NoCall
    /\ UNCHANGED <<jobs, transferQueue, isProcessing, startOrder, creating,
                   cancelling, dbWrites, cancelWrites, reported, cancelCalls,
                   appendOrder, queueCancelled, uploadCalled, probeFailed>>
    /\ UNCHANGED jobVars

\* The write of the completed job returned: activeTransfers.delete,
\* processQueue().
CompleteFinish(j, ok) ==
    /\ j \in DOMAIN pc /\ pc[j] = "completing"
    /\ transfers' = updateJobInDatabase(transfers, j, pipeWrite[j], ok)
    /\ LET r == processQueue(transferQueue, activeTransfers \ {j}, jobs,
                             [pc EXCEPT ![j] = "done"],
                             [pipeWrite EXCEPT ![j] = NoWrite], isProcessing)
       IN /\ transferQueue' = r.queue
          /\ activeTransfers' = r.active
          /\ jobs' = r.jobs
          /\ pc' = r.pc
          /\ pipeWrite' = r.pipeWrite
          /\ isProcessing' = r.isProcessing
          /\ startOrder' = startOrder \o r.started
    /\ lastCall' = NoCall
    /\ UNCHANGED <<creating, cancelling, dbWrites, cancelWrites, reported,
                   cancelCalls, appendOrder, queueCancelled, uploadCalled,
                   probeFailed>>
    /\ UNCHANGED jobVars

\* The write of the failed job returned: activeTransfers.delete,
\* processQueue(), throw error.  The rejection runs the catch callback that
\* processQueue attached to processTransfer(job): job.fail(error) and
\* activeTransfers.delete again.
FailFinish(j, ok) ==
    /\ j \in DOMAIN pc /\ pc[j] = "failing"
    /\ transfers' = updateJobInDatabase(transfers, j, pipeWrite[j], ok)
    /\ LET r == processQueue(transferQueue, activeTransfers \ {j}, jobs,
                             [pc EXCEPT ![j] = "done"],
                             [pipeWrite EXCEPT ![j] = NoWrite], isProcessing)
       IN /\ transferQueue' = r.queue
          /\ activeTransfers' = r.active \ {j}
          /\ jobs' = [r.jobs EXCEPT ![j] = fail(@, pipeWrite[j].error_message)]
          /\ pc' = r.pc
          /\ pipeWrite' = r.pipeWrite
          /\ isProcessing' = r.isProcessing
          /\ startOrder' = startOrder \o r.started
    /\ lastCall' = NoCall
    /\ UNCHANGED <<creating, cancelling, dbWrites, cancelWrites, reported,
                   cancelCalls, appendOrder, queueCancelled, uploadCalled,
                   probeFailed>>
    /\ UNCHANGED jobVars

\* The database runs a progress UPDATE (or fails to: the error is swallowed
\* by updateJobInDatabase).
ProgressWriteDone(w, ok) ==
    /\ w \in dbWrites
    /\ transfers' = updateJobInDatabase(transfers, w.id, w.upd, ok)
    /\ dbWrites' = dbWrites \ {w}
    /\ lastCall' = NoCall
    /\ UNCHANGED <<jobs, transferQueue, activeTransfers, isProcessing,
                   creating, pc, pipeWrite, cancelling, cancelWrites,
                   reported, cancelCalls, startOrder, appendOrder,
                   queueCancelled, uploadCalled, probeFailed>>
    /\ UNCHANGED jobVars

-----------------------------------------------------------------------------
(* cancelTransfer *)

\* cancelTransfer of a job in activeTransfers, up to its await: job.cancel()
\* and the snapshot taken by updateJobInDatabase.  userId is not used.
CancelActive(maxCancels, id, userId) ==
    /\ cancelCalls < maxCancels
    /\ id \in activeTransfers
    /\ jobs' = [jobs EXCEPT ![id] = cancel(@)]
    /\ cancelling' = cancelling \cup
                        {[id |-> id, userId |-> userId,
                          upd |-> Snapshot(cancel(jobs[id]))]}
    /\ cancelCalls' = cancelCalls + 1
    /\ lastCall' = NoCall
    /\ UNCHANGED <<transfers, transferQueue, activeTransfers, isProcessing,
                   creating, pc, pipeWrite, dbWrites, cancelWrites, reported,
                   startOrder, appendOrder, queueCancelled, uploadCalled,
                   probeFailed>>
    /\ UNCHANGED jobVars

\* cancelTransfer returning after its write without the delete from
\* activeTransfers.
CancelActiveFinishNoEvict(c, ok) ==
    /\ c \in cancelling
    /\ transfers' = updateJobInDatabase(transfers, c.id, c.upd, ok)
    /\ cancelling' = cancelling \ {c}
    /\ lastCall' = Call("cancelTransfer", "engine", c.userId, c.id, 0, 0,
                        "ok", NoStats)
    /\ UNCHANGED <<jobs, transferQueue, activeTransfers, isProcessing,
                   creating, pc, pipeWrite, dbWrites, cancelWrites, reported,
                   cancelCalls, startOrder, appendOrder, queueCancelled,
                   uploadCalled, probeFailed>>
    /\ UNCHANGED jobVars

\* ... after the await: activeTransfers.delete, return success.
CancelActiveFinish(c, ok) ==
    /\ c \in cancelling
    /\ transfers' = updateJobInDatabase(transfers, c.id, c.upd, ok)
    /\ activeTransfers' = activeTransfers \ {c.id}
    /\ cancelling' = cancelling \ {c}
    /\ lastCall' = Call("cancelTransfer", "engine", c.userId, c.id, 0, 0,
                        "ok", NoStats)
    /\ UNCHANGED <<jobs, transferQueue, isProcessing, creating, pc, pipeWrite,
                   dbWrites, cancelWrites, reported, cancelCalls, startOrder,
                   appendOrder, queueCancelled, uploadCalled, probeFailed>>
    /\ UNCHANGED jobVars

\* cancelTransfer of an id that is not in activeTransfers: the UPDATE
\* {status: "cancelled"} is issued for that id, whatever it is.
CancelStored(maxCancels, maxInFlight, id, userId) ==
    /\ cancelCalls < maxCancels
    /\ id \notin activeTransfers
    /\ Cardinality(cancelWrites) < maxInFlight
    /\ cancelWrites' = cancelWrites \cup {[id |-> id, userId |-> userId]}
    /\ cancelCalls' = cancelCalls + 1
    /\ queueCancelled' = IF id \in Range(transferQueue)
                         THEN queueCancelled \cup {id} ELSE queueCancelled
    /\ lastCall' = NoCall
    /\ UNCHANGED <<transfers, jobs, transferQueue, activeTransfers,
                   isProcessing, creating, pc, pipeWrite, cancelling,
                   dbWrites, reported, startOrder, appendOrder, uploadCalled,
                   probeFailed>>
    /\ UNCHANGED jobVars

\* ... the UPDATE ran (its result, changes > 0, is not looked at) and success
\* is returned, or it failed and the error is rethrown.
CancelStoredFinish(w, ok) ==
    /\ w \in cancelWrites
    /\ transfers' = IF ok THEN updateTransferJob(transfers, w.id, CancelUpdate)
                    ELSE transfers
    /\ cancelWrites' = cancelWrites \ {w}
    /\ lastCall' = Call("cancelTransfer", "engine", w.userId, w.id, 0, 0,
                        IF ok THEN "ok" ELSE "db_error", NoStats)
    /\ UNCHANGED <<jobs, transferQueue, activeTransfers, isProcessing,
                   creating, pc, pipeWrite, cancelling, dbWrites, reported,
                   cancelCalls, startOrder, appendOrder, queueCancelled,
                   uploadCalled, probeFailed>>
    /\ UNCHANGED jobVars

-----------------------------------------------------------------------------
(* getTransferStatus *)

RowStats(id) ==
    [id |-> id, status |-> transfers[id].status,
     progress |-> transfers[id].progress,
     fileSize |-> transfers[id].file_size,
     transferredBytes |-> transfers[id].transferred_bytes,
     error |-> transfers[id].error_message]

\* What getTransferStatus(transferId, userId) returns in the current state;
\* result "not_found" stands for the thrown "Transfer not found".
TransferStatus(transferId, userId) ==
    IF transferId \in activeTransfers
    THEN [result |-> "ok", stats |-> getStats(transferId, jobs[transferId])]
    ELSE IF getTransferById(transferId, userId) = {}
         THEN [result |-> "not_found", stats |-> NoStats]
         ELSE [result |-> "ok", stats |-> RowStats(transferId)]

GetTransferStatus(transferId, userId) ==
    /\ lastCall' = Call("getTransferStatus", "engine", userId, transferId, 0, 0,
                        TransferStatus(transferId, userId).result,
                        TransferStatus(transferId, userId).stats)
    /\ UNCHANGED <<transfers, jobs, transferQueue, activeTransfers,
                   isProcessing, creating, pc, pipeWrite, cancelling,
                   dbWrites, cancelWrites, reported, cancelCalls, startOrder,
                   appendOrder, queueCancelled, uploadCalled, probeFailed>>
    /\ UNCHANGED jobVars

-----------------------------------------------------------------------------
(* getQueueStatus *)

\* getQueueStatus reporting the size of the active set as the total.
getQueueStatusTotalActive ==
    [activeTransfers |-> Cardinality(activeTransfers),
     queuedTransfers |-> Len(transferQueue),
     maxConcurrentTransfers |-> maxConcurrentTransfers,
     totalTransfers |-> Cardinality(activeTransfers)]

\* getQueueStatus reporting the length of the queue as the active count and
\* the size of the active set as the queued count.
getQueueStatusSwapped ==
    [activeTransfers |-> Len(transferQueue),
     queuedTransfers |-> Cardinality(activeTransfers),
     maxConcurrentTransfers |-> maxConcurrentTransfers,
     totalTransfers |-> Cardinality(activeTransfers) + Len(transferQueue)]

\* What getQueueStatus() returns in the current state (it is synchronous
\* and changes nothing).
getQueueStatus ==
    [activeTransfers |-> Cardinality(activeTransfers),
     queuedTransfers |-> Len(transferQueue),
     maxConcurrentTransfers |-> maxConcurrentTransfers,
     totalTransfers |-> Cardinality(activeTransfers) + Len(transferQueue)]

\* A call of getQueueStatus(): the caller gets the record, nothing else
\* changes.
GetQueueStatus ==
    /\ lastCall' = Call("getQueueStatus", "engine", 0, 0, 0, 0, "ok",
                        getQueueStatus)
    /\ UNCHANGED <<transfers, jobs, transferQueue, activeTransfers,
                   isProcessing, creating, pc, pipeWrite, cancelling,
                   dbWrites, cancelWrites, reported, cancelCalls, startOrder,
                   appendOrder, queueCancelled, uploadCalled, probeFailed>>
    /\ UNCHANGED jobVars

-----------------------------------------------------------------------------
(* A TransferJob used directly: progress callbacks *)

\* What a registered callback does when it is called.
CallbackKinds == {"returns", "throws"}

\* Arguments <<transferred, total>> of updateProgress.
ProgressArgs == {<<0, 0>>, <<0, 1000>>, <<500, 1000>>, <<1000, 1000>>}

\* The object handed to callback number i.
Payload(i, job) ==
    [observer |-> i, progress |-> job.progress,
     transferred |-> job.transferredBytes, total |-> job.fileSize,
     status |-> job.status]

\* The forEach of updateProgress without the try/catch around the call: the
\* first callback that throws ends the loop.
NotificationsNoCatch(callbacks, job) ==
    LET throwing == {i \in 1..Len(callbacks) : callbacks[i] = "throws"}
        last == IF throwing = {} THEN Len(callbacks)
                ELSE CHOOSE i \in throwing : \A k \in throwing : i <= k
    IN [i \in 1..last |-> Payload(i, job)]

\* The forEach of updateProgress: every callback is called with the fields
\* the job has by then; what a callback throws is caught and logged.
Notifications(callbacks, job) ==
    [i \in 1..Len(callbacks) |-> Payload(i, job)]

\* TransferJob.onProgress(callback)
JobOnProgress(callback) ==
    /\ Len(progressCallbacks) < MaxObservers
    /\ progressCallbacks' = Append(progressCallbacks, callback)
    /\ UNCHANGED <<testJob, notified, jobLog>>
    /\ UNCHANGED engineVars

\* A method of testJob is called: the fields are assigned, then the callbacks
\* are called.
JobMutation(call, result) ==
    /\ Len(jobLog) < MaxJobCalls
    /\ testJob' = result
    /\ notified' = notified \o Notifications(progressCallbacks, result)
    /\ jobLog' = Append(jobLog, call)
    /\ UNCHANGED progressCallbacks
    /\ UNCHANGED engineVars

JobUpdateProgress(transferred, total) ==
    JobMutation([op |-> "updateProgress", transferred |-> transferred,
                 total |-> total, message |-> Null],
                updateProgress(testJob, transferred, total))

JobStart ==
    JobMutation([op |-> "start", transferred |-> 0, total |-> 0,
                 message |-> Null], start(testJob))

JobComplete ==
    JobMutation([op |-> "complete", transferred |-> 0, total |-> 0,
                 message |-> Null], complete(testJob))

JobFail(message) ==
    JobMutation([op |-> "fail", transferred |-> 0, total |-> 0,
                 message |-> message], fail(testJob, message))

JobCancel ==
    JobMutation([op |-> "cancel", transferred |-> 0, total |-> 0,
                 message |-> Null], cancel(testJob))

-----------------------------------------------------------------------------
(* Specifications *)

JobIds == DOMAIN jobs
TransferIds == 1..(Len(transfers) + 1)

\* Every operation with every outcome, few jobs.
Next ==
    \/ \E r \in CreateRequests : PostTransferInvalid(r[1], r[2], r[3])
    \/ \E r \in CreateRequests : CreateTransferReject(r[1], r[2], r[3])
    \/ \E r \in CreateRequests : CreateTransferDbError(r[1], r[2], r[3])
    \/ \E r \in CreateRequests, probe \in ProbeResults :
          CreateTransferInsert(MaxJobs, MaxCreating, r[1], r[2], r[3], probe)
    \/ \E id \in creating : CreateTransferEnqueue(id)
    \/ \E j \in JobIds, ok \in BOOLEAN : PipelineBegin(j, ok)
    \/ \E j \in JobIds, ok \in BOOLEAN, m \in ErrorMessages :
          PipelineBeginFail(j, ok, m)
    \/ \E j \in JobIds, p \in Percentages :
          DownloadProgress(MaxInFlight, j, p)
    \/ \E j \in JobIds : DownloadEnd(j)
    \/ \E j \in JobIds, p \in Percentages : UploadProgress(MaxInFlight, j, p)
    \/ \E j \in JobIds : UploadReturn(j)
    \/ \E j \in JobIds, m \in ErrorMessages : ProviderFail(j, m)
    \/ \E j \in JobIds, ok \in BOOLEAN : CompleteFinish(j, ok)
    \/ \E j \in JobIds, ok \in BOOLEAN : FailFinish(j, ok)
    \/ \E w \in dbWrites, ok \in BOOLEAN : ProgressWriteDone(w, ok)
    \/ \E id \in TransferIds, u \in Users : CancelActive(MaxCancels, id, u)
    \/ \E id \in TransferIds, u \in Users :
          CancelStored(MaxCancels, MaxInFlight, id, u)
    \/ \E c \in cancelling, ok \in BOOLEAN : CancelActiveFinish(c, ok)
    \/ \E w \in cancelWrites, ok \in BOOLEAN : CancelStoredFinish(w, ok)
    \/ \E id \in TransferIds, u \in Users : GetTransferStatus(id, u)

Spec == Init /\ [][Next]_vars

\* The dispatcher with more jobs than slots and a queue of several jobs: one
\* user with valid accounts, a known file size, every write succeeding, no
\* progress reports, no cancelTransfer.
NextQueue ==
    \/ \E n \in ProbedSizes :
          CreateTransferInsert(MaxQueueJobs, MaxQueueCreating, 1, 1, 2,
                               ProbeSuccess(n))
    \/ \E id \in creating : CreateTransferEnqueue(id)
    \/ \E j \in JobIds : PipelineBegin(j, TRUE)
    \/ \E j \in JobIds : DownloadEnd(j)
    \/ \E j \in JobIds : UploadReturn(j)
    \/ \E j \in JobIds, m \in ErrorMessages : ProviderFail(j, m)
    \/ \E j \in JobIds : CompleteFinish(j, TRUE)
    \/ \E j \in JobIds : FailFinish(j, TRUE)

SpecQueue == Init /\ [][NextQueue]_vars

\* The dispatcher with more jobs than slots and cancelTransfer: as above,
\* one createTransfer at a time.
NextCancel ==
    \/ \E n \in ProbedSizes :
          CreateTransferInsert(MaxCancelJobs, MaxCancelCreating, 1, 1, 2,
                               ProbeSuccess(n))
    \/ \E id \in creating : CreateTransferEnqueue(id)
    \/ \E j \in JobIds : PipelineBegin(j, TRUE)
    \/ \E j \in JobIds : DownloadEnd(j)
    \/ \E j \in JobIds : UploadReturn(j)
    \/ \E j \in JobIds, m \in ErrorMessages : ProviderFail(j, m)
    \/ \E j \in JobIds : CompleteFinish(j, TRUE)
    \/ \E j \in JobIds : FailFinish(j, TRUE)
    \/ \E id \in 1..Len(transfers) : CancelActive(MaxCancelCalls, id, 1)
    \/ \E id \in 1..Len(transfers) :
          CancelStored(MaxCancelCalls, MaxInFlight, id, 1)
    \/ \E c \in cancelling : CancelActiveFinish(c, TRUE)
    \/ \E w \in cancelWrites : CancelStoredFinish(w, TRUE)

SpecCancel == Init /\ [][NextCancel]_vars

\* The next step of the pipeline of job j, whichever it is: every await of
\* processTransfer is on a provider call or on a write, and each of them
\* returns or fails.
PipelineStep(j) ==
    \/ PipelineBegin(j, TRUE)
    \/ DownloadEnd(j)
    \/ UploadReturn(j)
    \/ \E m \in ErrorMessages : ProviderFail(j, m)
    \/ CompleteFinish(j, TRUE)
    \/ FailFinish(j, TRUE)

\* The dispatcher with cancelTransfer where no pipeline waits forever and the
\* insert of createTransfer returns; createTransfer and cancelTransfer calls
\* themselves come or do not come.  Provider failures hit the first
\* MaxLiveFailJobs jobs.
NextLive ==
    \/ \E n \in ProbedSizes :
          CreateTransferInsert(MaxLiveJobs, MaxLiveCreating, 1, 1, 2,
                               ProbeSuccess(n))
    \/ \E id \in creating : CreateTransferEnqueue(id)
    \/ \E j \in JobIds : PipelineBegin(j, TRUE)
    \/ \E j \in JobIds : DownloadEnd(j)
    \/ \E j \in JobIds : UploadReturn(j)
    \/ \E j \in JobIds \cap 1..MaxLiveFailJobs, m \in ErrorMessages :
          ProviderFail(j, m)
    \/ \E j \in JobIds : CompleteFinish(j, TRUE)
    \/ \E j \in JobIds : FailFinish(j, TRUE)
    \/ \E id \in 1..Len(transfers) : CancelActive(MaxLiveCancels, id, 1)
    \/ \E id \in 1..Len(transfers) :
          CancelStored(MaxLiveCancels, MaxInFlight, id, 1)
    \/ \E c \in cancelling : CancelActiveFinish(c, TRUE)
    \/ \E w \in cancelWrites : CancelStoredFinish(w, TRUE)

SpecLive ==
    /\ Init /\ [][NextLive]_vars
    /\ \A j \in 1..MaxLiveJobs : WF_vars(PipelineStep(j))
    /\ WF_vars(\E id \in creating : CreateTransferEnqueue(id))

\* The dispatcher with more jobs than slots and a database that may fail
\* every write the pipelines await: no cancelTransfer, no progress reports.
NextWrites ==
    \/ \E n \in ProbedSizes :
          CreateTransferInsert(MaxWriteJobs, MaxWriteCreating, 1, 1, 2,
                               ProbeSuccess(n))
    \/ \E id \in creating : CreateTransferEnqueue(id)
    \/ \E j \in JobIds, ok \in BOOLEAN : PipelineBegin(j, ok)
    \/ \E j \in JobIds, ok \in BOOLEAN, m \in ErrorMessages :
          PipelineBeginFail(j, ok, m)
    \/ \E j \in JobIds : DownloadEnd(j)
    \/ \E j \in JobIds : UploadReturn(j)
    \/ \E j \in JobIds, m \in ErrorMessages : ProviderFail(j, m)
    \/ \E j \in JobIds, ok \in BOOLEAN : CompleteFinish(j, ok)
    \/ \E j \in JobIds, ok \in BOOLEAN : FailFinish(j, ok)

SpecWrites == Init /\ [][NextWrites]_vars

\* A TransferJob with callbacks registered at any time, each returning or
\* throwing, and its methods called in any order.
NextJob ==
    \/ \E callback \in CallbackKinds : JobOnProgress(callback)
    \/ \E a \in ProgressArgs : JobUpdateProgress(a[1], a[2])
    \/ JobStart
    \/ JobComplete
    \/ \E m \in ErrorMessages : JobFail(m)
    \/ JobCancel

SpecJob == Init /\ [][NextJob]_vars

\* The dispatcher with more jobs than slots and getQueueStatus called at any
\* time: every write succeeds, no cancelTransfer, no progress reports.
NextStatus ==
    \/ \E n \in ProbedSizes :
          CreateTransferInsert(MaxStatusJobs, MaxStatusCreating, 1, 1, 2,
                               ProbeSuccess(n))
    \/ \E id \in creating : CreateTransferEnqueue(id)
    \/ \E j \in JobIds : PipelineBegin(j, TRUE)
    \/ \E j \in JobIds : DownloadEnd(j)
    \/ \E j \in JobIds : UploadReturn(j)
    \/ \E j \in JobIds, m \in ErrorMessages : ProviderFail(j, m)
    \/ \E j \in JobIds : CompleteFinish(j, TRUE)
    \/ \E j \in JobIds : FailFinish(j, TRUE)
    \/ GetQueueStatus

SpecStatus == Init /\ [][NextStatus]_vars

\* Progress of one user's jobs through both phases: the probe fails or gives
\* the size, every provider step may throw, every write succeeds, the
\* progress writes nobody awaits land in any order, getTransferStatus is
\* called at any time.
NextProgress ==
    \/ \E probe \in ProbeResults :
          CreateTransferInsert(MaxProgressJobs, MaxProgressCreating, 1, 1, 2,
                               probe)
    \/ \E id \in creating : CreateTransferEnqueue(id)
    \/ \E j \in JobIds : PipelineBegin(j, TRUE)
    \/ \E j \in JobIds, p \in ProgressPercentages :
          DownloadProgress(MaxProgressInFlight, j, p)
    \/ \E j \in JobIds : DownloadEnd(j)
    \/ \E j \in JobIds, p \in ProgressPercentages :
          UploadProgress(MaxProgressInFlight, j, p)
    \/ \E j \in JobIds : UploadReturn(j)
    \/ \E j \in JobIds, m \in ErrorMessages : ProviderFail(j, m)
    \/ \E j \in JobIds : CompleteFinish(j, TRUE)
    \/ \E j \in JobIds : FailFinish(j, TRUE)
    \/ \E w \in dbWrites : ProgressWriteDone(w, TRUE)
    \/ \E id \in 1..Len(transfers) : GetTransferStatus(id, 1)

SpecProgress == Init /\ [][NextProgress]_vars

-----------------------------------------------------------------------------
(* Properties *)

Running == {j \in JobIds : jobs[j].status = "running"}

\* Pipelines that have been started and have reached neither job.complete()
\* nor the catch block.
Executing == {j \in JobIds : pc[j] \in {"starting", "downloading", "uploading"}}

\* C1: at most maxConcurrentTransfers jobs have status running, and the
\* active set never holds more than maxConcurrentTransfers jobs.
C1_RunningBounded ==
    /\ Cardinality(Running) <= maxConcurrentTransfers
    /\ Cardinality(activeTransfers) <= maxConcurrentTransfers

\* The limit is reached with a job waiting, after a cancelTransfer call.
C1_Witness ==
    /\ Cardinality(Running) = maxConcurrentTransfers
    /\ Cardinality(activeTransfers) = maxConcurrentTransfers
    /\ Len(transferQueue) > 0
    /\ cancelCalls > 0

\* C2: a job cancelled while it waits in the pending queue never has the
\* in-memory or persisted status running or completed afterwards, and its
\* pipeline is never started.
C2_QueuedCancelIsFinal ==
    \A j \in queueCancelled :
        /\ jobs[j].status \notin {"running", "completed"}
        /\ transfers[j].status \notin {"running", "completed"}
        /\ pc[j] = "none"

AllowedTransitions ==
    {<<"queued", "running">>, <<"running", "completed">>,
     <<"running", "failed">>, <<"queued", "cancelled">>,
     <<"running", "cancelled">>}

\* C3: the in-memory status of a job changes only along queued -> running ->
\* {completed, failed}, queued -> cancelled or running -> cancelled, and never
\* leaves completed, failed or cancelled.
C3_StatusTransitions ==
    [][\A j \in JobIds :
          \/ jobs'[j].status = jobs[j].status
          \/ <<jobs[j].status, jobs'[j].status>> \in AllowedTransitions]_vars

\* C4: at most maxConcurrentTransfers pipelines are executing at any time.
C4_PipelinesBounded == Cardinality(Executing) <= maxConcurrentTransfers

\* C5: whenever a job leaves the active set while the pending queue is not
\* empty, the head of the queue is moved into the active set and started in
\* the same step.
C5_DrainOnRelease ==
    [][(activeTransfers \ activeTransfers' # {} /\ Len(transferQueue) > 0)
          => /\ Head(transferQueue) \in activeTransfers'
             /\ pc'[Head(transferQueue)] = "starting"]_vars

\* C6: jobs are started in the order in which they were appended to the
\* pending queue: the jobs started so far are the first ones appended, in
\* that order, and the ones still waiting follow in that order.
C6_Fifo ==
    /\ Len(startOrder) <= Len(appendOrder)
    /\ startOrder = SubSeq(appendOrder, 1, Len(startOrder))
    /\ transferQueue = SubSeq(appendOrder, Len(startOrder) + 1,
                              Len(appendOrder))

\* All slots were filled from the queue and two jobs wait in it, appended in
\* another order than that of their ids.
C6_Witness ==
    /\ Len(startOrder) >= maxConcurrentTransfers
    /\ Len(transferQueue) = 2
    /\ transferQueue[1] > transferQueue[2]

AccountMissing(userId, accountId) == getCloudAccountById(accountId, userId) = {}

\* C7: a createTransfer call with sourceAccountId = destinationAccountId,
\* made through the POST handler or on the engine, fails with a validation
\* error, whether or not the account exists for the user, and leaves queue,
\* active set and persisted records as they were.
C7_SameAccountRejected ==
    [][(lastCall'.op = "createTransfer" /\ lastCall'.src = lastCall'.dst)
          => /\ lastCall'.result = "validation"
             /\ UNCHANGED <<transferQueue, activeTransfers, transfers>>]_vars

\* C8: createTransfer called for a source or destination account that does
\* not exist for the user throws the not-found error; no record is persisted,
\* nothing is appended to the queue, the active set is unchanged, and no
\* persisted record names an account its user does not have.
C8_MissingAccountNotFound ==
    [][/\ (/\ lastCall'.op = "createTransfer"
           /\ lastCall'.by = "engine"
           /\ \/ AccountMissing(lastCall'.userId, lastCall'.src)
              \/ AccountMissing(lastCall'.userId, lastCall'.dst))
          => /\ lastCall'.result = "not_found"
             /\ UNCHANGED <<transfers, jobs, transferQueue, activeTransfers>>
       /\ \A i \in 1..Len(transfers') :
             /\ ~AccountMissing(transfers'[i].user_id,
                                transfers'[i].source_account_id)
             /\ ~AccountMissing(transfers'[i].user_id,
                                transfers'[i].destination_account_id)]_vars

\* createTransfer threw not-found while a job is active.
C8_Witness ==
    /\ lastCall.op = "createTransfer"
    /\ lastCall.by = "engine"
    /\ lastCall.result = "not_found"
    /\ AccountMissing(lastCall.userId, lastCall.dst)
    /\ activeTransfers # {}

\* C9: a createTransfer whose size probe failed still persists the job, with
\* file size 0, and, once the INSERT has returned, has it in the queue or
\* started, with file size 0.
C9_ProbeFailureEnqueued ==
    \A id \in probeFailed :
        /\ id \in 1..Len(transfers)
        /\ transfers[id].file_size = 0
        /\ \/ id \in creating
           \/ /\ id \in JobIds
              /\ jobs[id].fileSize = 0
              /\ id \in Range(transferQueue) \/ pc[id] # "none"

\* A job whose probe failed was run to completion.
C9_Witness ==
    \E id \in probeFailed :
        /\ id \in JobIds
        /\ pc[id] = "done"
        /\ jobs[id].status = "completed"
        /\ transfers[id].status = "completed"

\* C10: getTransferStatus(id, userId) returns stats only for a job owned by
\* userId, resident in the active set or not.
C10_OwnerOnly ==
    (lastCall.op = "getTransferStatus" /\ lastCall.result = "ok")
        => /\ lastCall.id \in 1..Len(transfers)
           /\ transfers[lastCall.id].user_id = lastCall.userId

\* C11: a cancelTransfer call for an id that is neither in the active set nor
\* in the transfers table throws the not-found error, unless the database
\* itself failed.  (The table only grows: an id without a row when the call
\* returns had none during the call.)
C11_CancelMissingNotFound ==
    (/\ lastCall.op = "cancelTransfer"
     /\ lastCall.id \notin 1..Len(transfers)
     /\ lastCall.result # "db_error")
        => lastCall.result = "not_found"

\* C12: the progress of every job is within 0..100, and from one state to the
\* next the progress of a job that is and stays running does not decrease
\* (the percentages a provider reports are within 0..100 and do not decrease
\* within a phase).
C12_ProgressMonotone ==
    [][\A j \in DOMAIN jobs' :
          /\ jobs'[j].progress \in 0..100
          /\ (/\ j \in DOMAIN jobs
              /\ jobs[j].status = "running"
              /\ jobs'[j].status = "running")
                => jobs'[j].progress >= jobs[j].progress]_vars

\* A running job whose size is known is in its upload phase at 50 + 13 after
\* the upload reported 25 percent.
C12_Witness ==
    \E j \in JobIds :
        /\ jobs[j].status = "running"
        /\ pc[j] = "uploading"
        /\ reported[j] = 25
        /\ jobs[j].fileSize > 0
        /\ jobs[j].progress = 63

\* C13: right after job.complete(), while the pipeline awaits the write of
\* the completed job, the job has status completed and progress 100, and 100
\* is the progress in the write, whatever the file size.
C13_CompleteForcesProgress ==
    \A j \in JobIds :
        pc[j] = "completing"
            => /\ jobs[j].status = "completed"
               /\ jobs[j].progress = 100
               /\ pipeWrite[j].progress = 100

\* C14: a getTransferStatus call for a job whose pipeline has completed
\* reports status completed, the file size established by the probe (the
\* file_size of the row inserted by createTransfer) and transferredBytes equal
\* to that file size.
C14_CompletedRoundTrip ==
    (/\ lastCall.op = "getTransferStatus"
     /\ lastCall.id \in JobIds
     /\ pc[lastCall.id] = "done"
     /\ jobs[lastCall.id].status = "completed")
        => /\ lastCall.result = "ok"
           /\ lastCall.stats.status = "completed"
           /\ lastCall.stats.fileSize = transfers[lastCall.id].file_size
           /\ lastCall.stats.transferredBytes = lastCall.stats.fileSize

\* C15: when a provider step of a running job throws, the job gets status
\* failed and the message as its error; when the catch block has finished,
\* the job is failed with that error and out of the active set, and the head
\* of a non-empty queue has been started if a slot is free; after that the
\* job is never queued, activated or run again.
C15_FailureFreesSlot ==
    [][\A j \in JobIds :
          /\ (/\ pc[j] \in {"starting", "downloading", "uploading"}
              /\ pc'[j] = "failing"
              /\ jobs[j].status = "running")
                => /\ jobs'[j].status = "failed"
                   /\ jobs'[j].error \in ErrorMessages
          /\ (pc[j] = "failing" /\ pc'[j] = "done")
                => /\ jobs'[j].status = "failed"
                   /\ jobs'[j].error = jobs[j].error
                   /\ jobs'[j].error \in ErrorMessages
                   /\ j \notin activeTransfers'
                   /\ j \notin Range(transferQueue')
                   /\ (/\ Len(transferQueue) > 0
                       /\ Cardinality(activeTransfers \ {j})
                             < maxConcurrentTransfers)
                         => /\ Head(transferQueue) \in activeTransfers'
                            /\ pc'[Head(transferQueue)] = "starting"
                            /\ jobs'[Head(transferQueue)].status = "running"
          /\ pc[j] = "done"
                => /\ pc'[j] = "done"
                   /\ j \notin activeTransfers'
                   /\ j \notin Range(transferQueue')]_vars

\* No job has completed, a job has failed and its slot went to the fourth
\* job, while a fifth still waits.
C15_Witness ==
    /\ \E j \in JobIds : pc[j] = "done" /\ jobs[j].status = "failed"
    /\ \A j \in JobIds : jobs[j].status # "completed"
    /\ Len(startOrder) = maxConcurrentTransfers + 1
    /\ Cardinality(activeTransfers) = maxConcurrentTransfers
    /\ Len(transferQueue) = 1

\* C16: no createTransfer call ends with a provider error, the drain guard
\* is never left set, and a step in which the pipeline of job j enters or
\* leaves its catch block changes no persisted row, progress or error of
\* another job, and no status of another job except that of a waiting job
\* the drain starts.
C16_FailureIsolated ==
    [][/\ lastCall'.op = "createTransfer"
             => lastCall'.result # "provider_error"
       /\ ~isProcessing'
       /\ \A j \in JobIds :
             (pc'[j] # pc[j] /\ (pc'[j] = "failing" \/ pc[j] = "failing"))
                => \A k \in JobIds \ {j} :
                      /\ transfers'[k] = transfers[k]
                      /\ jobs'[k].progress = jobs[k].progress
                      /\ jobs'[k].error = jobs[k].error
                      /\ \/ jobs'[k].status = jobs[k].status
                         \/ /\ k \in Range(transferQueue)
                            /\ jobs[k].status = "queued"
                            /\ jobs'[k].status = "running"]_vars

\* After the pipeline of one job failed, another job has completed, a job
\* created later is running and the queue is empty.
C16_Witness ==
    /\ ~isProcessing
    /\ transferQueue = <<>>
    /\ \E j, k, l \in JobIds :
          /\ pc[j] = "done" /\ jobs[j].status = "failed"
          /\ jobs[k].status = "completed" /\ jobs[k].error = Null
          /\ l > j /\ l > maxConcurrentTransfers
          /\ jobs[l].status = "running"

\* The write the pipeline of job j awaited did not reach the row: the row is
\* as it was although the snapshot differs from it.
WriteLost(j) ==
    /\ pc'[j] # pc[j]
    /\ pc[j] \in {"starting", "completing", "failing"}
    /\ transfers' = transfers
    /\ updateTransferJob(transfers, j, pipeWrite[j]) # transfers

\* No job waits while a slot is free.
QueueDrained(queue, active) ==
    Len(queue) = 0 \/ Cardinality(active) >= maxConcurrentTransfers

\* C17: a step of a pipeline whose awaited write was lost does to the job in
\* memory what the step does when the write succeeds: after the start write
\* the job goes on unchanged to the download or fails with a provider error;
\* after the write of the completed or failed job the job keeps its terminal
\* status (completed unless cancelTransfer interfered, failed) and its error,
\* leaves the active set, and the queue is drained.
C17_WriteFailureSwallowed ==
    [][\A j \in JobIds :
          WriteLost(j) =>
             /\ pc[j] = "starting" =>
                   \/ pc'[j] = "downloading" /\ jobs'[j] = jobs[j]
                   \/ /\ pc'[j] = "failing"
                      /\ \E m \in ErrorMessages : jobs'[j] = fail(jobs[j], m)
             /\ pc[j] = "completing" =>
                   /\ pc'[j] = "done"
                   /\ jobs'[j] = jobs[j]
                   /\ cancelCalls = 0 => jobs'[j].status = "completed"
             /\ pc[j] = "failing" =>
                   /\ pc'[j] = "done"
                   /\ jobs'[j].status = "failed"
                   /\ jobs'[j].error = jobs[j].error
                   /\ jobs'[j].progress = jobs[j].progress
             /\ pc[j] \in {"completing", "failing"} =>
                   /\ j \notin activeTransfers'
                   /\ QueueDrained(transferQueue', activeTransfers')
                   /\ Len(transferQueue) > 0 =>
                         Head(transferQueue) \in activeTransfers']_vars

\* Every write of a job was lost (its row is as inserted), the job has
\* completed, and the job that waited for its slot has been started.
C17_Witness ==
    \E j \in JobIds :
        /\ pc[j] = "done"
        /\ jobs[j].status = "completed"
        /\ transfers[j].status = "queued"
        /\ j \notin activeTransfers
        /\ Len(startOrder) > maxConcurrentTransfers
        /\ Cardinality(activeTransfers) = maxConcurrentTransfers

\* What the method of the call does to a job nobody observes.
Unobserved(call, job) ==
    CASE call.op = "updateProgress" ->
            updateProgress(job, call.transferred, call.total)
      [] call.op = "start" -> start(job)
      [] call.op = "complete" -> complete(job)
      [] call.op = "fail" -> fail(job, call.message)
      [] call.op = "cancel" -> cancel(job)

\* C18: every call of start, updateProgress, complete, fail or cancel calls
\* each registered callback once, in the order of registration, with the
\* fields the job has after the call, whether or not a callback before it
\* threw; and the job's status, progress, transferredBytes and error are
\* those the call gives a job without callbacks.
C18_ObserversIsolated ==
    [][Len(jobLog') > Len(jobLog) =>
          LET call == jobLog'[Len(jobLog')]
              plain == Unobserved(call, testJob)
          IN /\ testJob'.status = plain.status
             /\ testJob'.progress = plain.progress
             /\ testJob'.transferredBytes = plain.transferredBytes
             /\ testJob'.error = plain.error
             /\ Len(notified') = Len(notified) + Len(progressCallbacks)
             /\ \A i \in 1..Len(progressCallbacks) :
                   notified'[Len(notified) + i] = Payload(i, testJob')]_vars

\* The first of two callbacks throws, and job.fail() has notified both of
\* the failed status after an earlier call had notified them too.
C18_Witness ==
    /\ progressCallbacks = <<"throws", "returns">>
    /\ Len(jobLog) = 2
    /\ jobLog[2].op = "fail"
    /\ testJob.status = "failed"
    /\ Len(notified) = 4
    /\ notified[4].observer = 2
    /\ notified[4].status = "failed"

Min(a, b) == IF a < b THEN a ELSE b

\* Every createTransfer call made so far has returned and none of the jobs
\* has settled.
AllReturnedNoneSettled ==
    /\ creating = {}
    /\ \A j \in JobIds : jobs[j].status \in {"queued", "running"}

\* C19: when the n createTransfer calls made so far have all returned and
\* none of their jobs has settled, getQueueStatus reports min(n, 3) active
\* and n - min(n, 3) queued transfers.
C19_QueueStatusCounts ==
    AllReturnedNoneSettled =>
        LET n == Cardinality(JobIds)
        IN /\ getQueueStatus.activeTransfers = Min(n, maxConcurrentTransfers)
           /\ getQueueStatus.queuedTransfers
                 = n - Min(n, maxConcurrentTransfers)
           /\ getQueueStatus.totalTransfers = n

\* Five calls have returned, nothing has settled: 3 active, 2 queued.
C19_Witness ==
    /\ AllReturnedNoneSettled
    /\ Cardinality(JobIds) = 5
    /\ getQueueStatus.activeTransfers = 3
    /\ getQueueStatus.queuedTransfers = 2

\* Math.round(p * 0.5) for a whole percentage p >= 0: halves are rounded up.
HalfRounded(p) == (p + 1) \div 2

\* C20: for a running job with fileSize > 0, a download report of p percent
\* sets the progress to round(p * 0.5) and transferredBytes to that share
\* of fileSize, an upload report of p percent sets it to 50 + round(p * 0.5),
\* and job.complete() after the upload gives progress 100 with status
\* completed.
C20_ProgressRemap ==
    [][\A j \in JobIds :
          (jobs[j].status = "running" /\ jobs[j].fileSize > 0) =>
             /\ (/\ pc[j] = "downloading" /\ pc'[j] = "downloading"
                 /\ reported'[j] # reported[j])
                   => /\ jobs'[j].progress = HalfRounded(reported'[j])
                      /\ jobs'[j].transferredBytes * 100
                            = HalfRounded(reported'[j]) * jobs[j].fileSize
                      /\ jobs'[j].status = "running"
             /\ (/\ pc[j] = "uploading" /\ pc'[j] = "uploading"
                 /\ reported'[j] # reported[j])
                   => /\ jobs'[j].progress = 50 + HalfRounded(reported'[j])
                      /\ jobs'[j].transferredBytes * 100
                            = (50 + HalfRounded(reported'[j]))
                                 * jobs[j].fileSize
                      /\ jobs'[j].status = "running"
             /\ (pc[j] = "uploading" /\ pc'[j] = "completing")
                   => /\ jobs'[j].progress = 100
                      /\ jobs'[j].transferredBytes = jobs[j].fileSize
                      /\ jobs'[j].status = "completed"]_vars

\* A job of 1000 bytes completed with progress 100 after the upload reported
\* 100 percent; the row still shows the 25 of the download report of 50
\* percent.
C20_Witness ==
    \E j \in JobIds :
        /\ jobs[j].fileSize = 1000
        /\ pc[j] = "completing"
        /\ reported[j] = 100
        /\ jobs[j].status = "completed"
        /\ jobs[j].progress = 100
        /\ transfers[j].status = "running"
        /\ transfers[j].progress = 25
        /\ transfers[j].transferred_bytes = 250

\* C21: a getQueueStatus call changes neither the queue, the active set, the
\* jobs nor the persisted records, and the record it returns has the size of
\* the active set, the length of the queue, their sum and 3.
C21_QueueStatusPureRead ==
    [][lastCall'.op = "getQueueStatus" =>
          /\ UNCHANGED <<transferQueue, activeTransfers, jobs, transfers, pc,
                         isProcessing>>
          /\ lastCall'.stats.activeTransfers = Cardinality(activeTransfers)
          /\ lastCall'.stats.queuedTransfers = Len(transferQueue)
          /\ lastCall'.stats.totalTransfers
                = lastCall'.stats.activeTransfers
                     + lastCall'.stats.queuedTransfers
          /\ lastCall'.stats.maxConcurrentTransfers = 3]_vars

\* getQueueStatus returned 3 active, 1 queued, 4 in total while a pipeline
\* was uploading.
C21_Witness ==
    /\ lastCall.op = "getQueueStatus"
    /\ lastCall.stats.activeTransfers = 3
    /\ lastCall.stats.queuedTransfers = 1
    /\ lastCall.stats.totalTransfers = 4
    /\ \E j \in activeTransfers : pc[j] = "uploading"

\* C22: a job whose fileSize is positive never has more transferred bytes
\* than its fileSize, whether it is queued, running or settled.
C22_TransferredWithinSize ==
    \A j \in JobIds :
        jobs[j].fileSize > 0 => jobs[j].transferredBytes <= jobs[j].fileSize

\* The upload of a 1000-byte file has reported 100 per cent: the running job
\* counts exactly 1000 bytes.
C22_Witness ==
    \E j \in JobIds :
        /\ pc[j] = "uploading" /\ reported[j] = 100
        /\ jobs[j].status = "running"
        /\ jobs[j].fileSize = 1000 /\ jobs[j].transferredBytes = 1000

NoDuplicates(s) == \A i, k \in 1..Len(s) : i # k => s[i] # s[k]

\* C23: a job id is at most once in the queue, never in the queue and in the
\* active set together, started at most once, and a job whose pipeline has
\* begun (so also one that failed) is never in the queue again.
C23_OnePipelinePerJob ==
    /\ NoDuplicates(transferQueue)
    /\ Range(transferQueue) \cap activeTransfers = {}
    /\ NoDuplicates(startOrder)
    /\ \A j \in JobIds : pc[j] # "none" => j \notin Range(transferQueue)

\* A job has failed and left the active set, the job that waited in the queue
\* was started in its place, and all four jobs were started.
C23_Witness ==
    /\ \E j \in JobIds : /\ pc[j] = "done" /\ jobs[j].status = "failed"
                         /\ j \notin activeTransfers
    /\ Len(startOrder) = 4
    /\ transferQueue = <<>>
    /\ Cardinality(activeTransfers) = 3

\* C24: every job appended to the queue is eventually started and eventually
\* settled as completed, failed or cancelled, with its pipeline over, when
\* pipeline steps are fair.  Appended jobs stay appended and settled jobs
\* stay settled, so "infinitely often" is "eventually" here.
C24_NoJobDropped ==
    \A j \in 1..MaxLiveJobs :
        []<>(j \in Range(appendOrder) =>
                /\ j \in Range(startOrder)
                /\ pc[j] = "done"
                /\ jobs[j].status \in {"completed", "failed", "cancelled"})

\* A cancelTransfer call has evicted a running job while another job waited
\* in the queue, and the job that waited has settled all the same.
C24_Witness ==
    /\ cancelCalls > 0
    /\ \E j \in JobIds :
          /\ pc[j] = "done"
          /\ jobs[j].status \in {"completed", "failed"}
          /\ \E i \in 1..Len(startOrder) : i > 3 /\ startOrder[i] = j

\* C25: when a cancelTransfer call returns for a job that had settled as
\* completed or failed, had left the active set and was persisted as such, the
\* persisted status is still the one it had.
C25_SettledStaysSettled ==
    [][\A id \in JobIds :
          (/\ pc[id] = "done"
           /\ id \notin activeTransfers
           /\ jobs[id].status \in {"completed", "failed"}
           /\ transfers[id].status = jobs[id].status
           /\ lastCall'.op = "cancelTransfer"
           /\ lastCall'.id = id)
          => transfers'[id].status = transfers[id].status]_vars

\* C26: the steps of one pipeline come in order.  The download begins only
\* from a started job whose start write has been handed to the database;
\* uploadFile is invoked only when the download ends, with no error on the
\* job; complete is called only when uploadFile has returned; and for a job
\* that fails before the download has ended uploadFile is never invoked.
C26_PipelineOrder ==
    [][\A j \in JobIds :
          /\ (pc'[j] = "downloading" /\ pc[j] # "downloading")
                => /\ pc[j] = "starting"
                   /\ j \in Range(startOrder)
                   /\ pipeWrite[j].status = "running"
                   /\ pipeWrite'[j] = NoWrite
          /\ (j \in uploadCalled' /\ j \notin uploadCalled)
                => /\ pc[j] = "downloading" /\ pc'[j] = "uploading"
                   /\ jobs'[j].error = Null
          /\ (pc'[j] = "uploading" /\ pc[j] # "uploading")
                => pc[j] = "downloading"
          /\ (jobs'[j].status = "completed" /\ jobs[j].status # "completed")
                => /\ pc[j] = "uploading" /\ pc'[j] = "completing"
                   /\ j \in uploadCalled
          /\ (pc'[j] = "failing" /\ pc[j] \in {"starting", "downloading"})
                => j \notin uploadCalled'
          /\ pc[j] \in {"failing", "done"}
                => /\ pc'[j] \in {"failing", "done"}
                   /\ (j \in uploadCalled' <=> j \in uploadCalled)]_vars

\* A download failed half-way and the job has settled as failed without
\* uploadFile; the row says failed.
C26_Witness ==
    \E j \in JobIds :
        /\ pc[j] = "done" /\ jobs[j].status = "failed"
        /\ jobs[j].progress = 25
        /\ j \notin uploadCalled
        /\ transfers[j].status = "failed"

\* C27: between the steps of the engine no sweep is running and isProcessing
\* is false, so no processQueue call returns at its guard; and every step
\* that calls processQueue (the end of createTransfer, the end of a pipeline)
\* leaves the queue empty or the active set full.
C27_SweepGuard ==
    [][/\ ~isProcessing /\ ~isProcessing'
       /\ (\/ appendOrder' # appendOrder
           \/ \E j \in JobIds : pc[j] # "done" /\ pc'[j] = "done")
             => QueueDrained(transferQueue', activeTransfers')]_vars

\* The end of a failed pipeline has swept the job that waited into the active
\* set, and the flag is false again.
C27_Witness ==
    /\ ~isProcessing
    /\ Len(startOrder) = 4 /\ transferQueue = <<>>
    /\ \E j \in JobIds :
          /\ pc[j] = "done" /\ jobs[j].status = "failed"
          /\ pc[startOrder[4]] = "starting"
          /\ Cardinality(activeTransfers) = 3

\* C28: a cancelTransfer call by a user who does not own the job changes
\* nothing: a resident job keeps its in-memory state and its place in the
\* active set, and the persisted record is the same when the call returns.
C28_NonOwnerCancelNoEffect ==
    [][/\ \A c \in cancelling' \ cancelling :
             c.userId # jobs[c.id].userId => jobs'[c.id] = jobs[c.id]
       /\ (/\ lastCall'.op = "cancelTransfer"
           /\ lastCall'.id \in 1..Len(transfers)
           /\ lastCall'.userId # transfers[lastCall'.id].user_id)
             => /\ transfers' = transfers
                /\ activeTransfers' = activeTransfers]_vars

\* C29 as stated: every job in the active set has status running.
C29_ActiveAreRunning ==
    \A j \in activeTransfers : jobs[j].status = "running"

\* C29, amended: a job in the active set has been started and its pipeline
\* has not ended; its status is never queued, and it is completed, failed or
\* cancelled only while the pipeline awaits the write of the completed or
\* failed job or a cancelTransfer call awaits its write.
C29_ActiveAreStarted ==
    \A j \in activeTransfers :
        /\ pc[j] \in {"starting", "downloading", "uploading", "completing",
                      "failing"}
        /\ jobs[j].status # "queued"
        /\ jobs[j].status = "completed" => pc[j] = "completing"
        /\ jobs[j].status = "failed" => pc[j] = "failing"
        /\ jobs[j].status = "cancelled" => \E c \in cancelling : c.id = j

\* The pipeline awaits the write of the completed job, which is still in the
\* active set.
C29_Witness ==
    \E j \in activeTransfers :
        pc[j] = "completing" /\ jobs[j].status = "completed"

\* C30: when the pipeline of a job is over and no write for the job is
\* pending, the row has the status and the progress of the job in memory.
C30_FinalStatePersisted ==
    \A j \in JobIds :
        (/\ pc[j] = "done"
         /\ \A w \in dbWrites : w.id # j
         /\ \A w \in cancelWrites : w.id # j
         /\ \A c \in cancelling : c.id # j)
            => /\ transfers[j].status = jobs[j].status
               /\ transfers[j].progress = jobs[j].progress

====
